---- MODULE Spec2Model ----
(***************************************************************************)
(* State-machine model of the EKF covariance management in                 *)
(* src/modules/ekf2/EKF/covariance.cpp (class Ekf): initialiseCovariance,  *)
(* predictCovariance, fixCovarianceErrors, constrainStateVar,              *)
(* checkAndFixCovarianceUpdate, resetQuatCov, resetMagCov and              *)
(* resetGyroBiasZCov, acting on the covariance matrix P.                   *)
(*                                                                         *)
(* Build configuration modelled: CONFIG_EKF2_GNSS, CONFIG_EKF2_BAROMETER,  *)
(* CONFIG_EKF2_RANGE_FINDER, CONFIG_EKF2_MAGNETOMETER and CONFIG_EKF2_WIND *)
(* all defined.                                                            *)
(*                                                                         *)
(* Numbers.  A float is modelled in fixed point with a resolution of 1e-6. *)
(* Parameters and other small quantities are integers counting 1e-6        *)
(* ("micro").  Entries of P span 1e-6 .. 1e6 and beyond, which does not    *)
(* fit one machine integer, so an entry is a pair [hi, lo] standing for    *)
(* hi + lo * 1e-6 with 0 <= lo < 1e6 (hi is the floor of the value).       *)
(* Rounding of float arithmetic is modelled as truncation to 1e-6; NaN and *)
(* infinities are not modelled except for the yaw_noise argument.          *)
(***************************************************************************)
EXTENDS Integers, Sequences, FiniteSets, TLC

\* ------------------------------------------------------------------ numbers

\* 1.0f in micro units.
Micro == 1000 * 1000

\* A matrix entry hi + lo * 1e-6.
Num(h, l) == [hi |-> h, lo |-> l]

\* The entry holding an integer number of micro units.
FromMicro(m) == [hi |-> m \div Micro, lo |-> m % Micro]

\* The entry holding a whole number.
Whole(h) == [hi |-> h, lo |-> 0]

Zero == Whole(0)

\* a < b, a > b, a <= b, a >= b on entries.
Lt(a, b) == a.hi < b.hi \/ (a.hi = b.hi /\ a.lo < b.lo)

Gt(a, b) == Lt(b, a)

Le(a, b) == ~Lt(b, a)

Ge(a, b) == ~Lt(a, b)

\* a + b on entries.
Add(a, b) ==
    LET s == a.lo + b.lo
    IN  [hi |-> a.hi + b.hi + (s \div Micro), lo |-> s % Micro]

\* 0.01f * a on entries.
Hundredth(a) ==
    [hi |-> a.hi \div 100, lo |-> (a.hi % 100) * 10000 + (a.lo \div 100)]

\* a * b on micro integers (the product of two floats), computed in limbs of
\* 1e-3 so that no intermediate value leaves the machine integers.
Mul(a, b) ==
    LET ah == a \div 1000
        al == a % 1000
        bh == b \div 1000
        bl == b % 1000
    IN  ah * bh + ((ah * bl + al * bh + ((al * bl) \div 1000)) \div 1000)

\* sq(x) on micro integers.
sq(a) == Mul(a, a)

\* fabsf on micro integers.
fabsf(a) == IF a < 0 THEN -a ELSE a

\* fmaxf / math::max on micro integers (parameters).
fmaxfP(a, b) == IF a < b THEN b ELSE a

\* fmaxf on entries.
fmaxf(a, b) == IF Lt(a, b) THEN b ELSE a

\* math::constrain on micro integers (parameters).
constrainP(val, min_val, max_val) ==
    IF val < min_val THEN min_val ELSE IF val > max_val THEN max_val ELSE val

\* math::constrain on entries: the lower limit is tested first, so when
\* min_val > max_val a value below min_val becomes min_val.
constrain(val, min_val, max_val) ==
    IF Lt(val, min_val) THEN min_val
    ELSE IF Gt(val, max_val) THEN max_val ELSE val

\* ------------------------------------------------------------- state layout

\* The partition of the error-state vector into blocks (index, dof).
State ==
    [quat_nominal |-> [idx |-> 0,  dof |-> 3],
     vel          |-> [idx |-> 3,  dof |-> 3],
     pos          |-> [idx |-> 6,  dof |-> 3],
     gyro_bias    |-> [idx |-> 9,  dof |-> 3],
     accel_bias   |-> [idx |-> 12, dof |-> 3],
     mag_I        |-> [idx |-> 15, dof |-> 3],
     mag_B        |-> [idx |-> 18, dof |-> 3],
     wind_vel     |-> [idx |-> 21, dof |-> 2]]

\* State::size
StateSize == State.wind_vel.idx + State.wind_vel.dof

Idx == 0 .. (StateSize - 1)

Axes == 0 .. 2

\* Whether index i lies in the block of `width` states starting at `first`.
InBlock(i, first, width) == first <= i /\ i < first + width

\* Whether index i lies in block s.
InState(i, s) == InBlock(i, s.idx, s.dof)

\* ------------------------------------------------------------ matrix library

\* The matrix M, evaluated.  (TLC keeps a function expression unevaluated and
\* evaluates it anew at every use; comparing it makes TLC compute it once.)
Mat(M) == IF M = M THEN M ELSE M

\* P.zero()
zero == [i \in Idx |-> [j \in Idx |-> Zero]]

\* A row with the columns first .. first + width - 1 set to zero.
RECURSIVE zeroColumns(_, _, _)
zeroColumns(row, first, width) ==
    IF width = 0 THEN row
    ELSE zeroColumns([row EXCEPT ![first] = Zero], first + 1, width - 1)

\* P.uncorrelateCovarianceSetVariance<width>(first, var) with a scalar
\* variance: rows and columns of the block are zeroed, the diagonal is set.
uncorrelateCovarianceSetVariance(M, first, width, var) ==
    Mat([i \in Idx |->
            IF InBlock(i, first, width)
            THEN [j \in Idx |-> IF i = j THEN var ELSE Zero]
            ELSE zeroColumns(M[i], first, width)])

\* P.uncorrelateCovarianceSetVariance<width>(first, vec) with one variance
\* per axis (vec is a sequence of `width` entries).
uncorrelateCovarianceSetVarianceVec(M, first, width, vec) ==
    Mat([i \in Idx |->
            IF InBlock(i, first, width)
            THEN [j \in Idx |-> IF i = j THEN vec[i - first + 1] ELSE Zero]
            ELSE zeroColumns(M[i], first, width)])

\* Row i of M with the columns first .. first + width - 1 replaced by the
\* entries of column i in those rows.
RECURSIVE mirrorColumns(_, _, _, _)
mirrorColumns(M, i, first, width) ==
    IF width = 0 THEN M[i]
    ELSE [mirrorColumns(M, i, first + 1, width - 1) EXCEPT ![first] = M[first][i]]

\* P.makeRowColSymmetric<width>(first): every pair (i, j) with i or j in the
\* block is made symmetric, the upper triangle being copied onto the lower.
makeRowColSymmetric(M, first, width) ==
    Mat([i \in Idx |->
            IF i < first THEN M[i]
            ELSE IF InBlock(i, first, width)
            THEN [j \in Idx |-> IF j < i THEN M[j][i] ELSE M[i][j]]
            ELSE mirrorColumns(M, i, first, width)])

\* The diagonal of M.
diagonal(M) == [i \in Idx |-> M[i][i]]

\* P.trace<width>(first)
RECURSIVE traceFrom(_, _, _)
traceFrom(M, first, width) ==
    IF width = 0 THEN Zero
    ELSE Add(M[first][first], traceFrom(M, first + 1, width - 1))

trace(M, first, width) == traceFrom(M, first, width)

\* ------------------------------------------------------------ configuration

\* The tuning parameters (_params) in micro units, with height_rate_lpf, the
\* low-pass filtered height rate, which a behaviour holds fixed.  gyro_noise
\* and accel_noise only feed the external transition routine and are left out.
NominalParams ==
    [gps_vel_noise |-> 300000, gps_pos_noise |-> 500000,
     pos_noaid_noise |-> 10000000, baro_noise |-> 3500000,
     range_noise |-> 100000, initial_tilt_err |-> 100000,
     gyro_bias_p_noise |-> 1000, accel_bias_p_noise |-> 3000,
     mage_p_noise |-> 1000, magb_p_noise |-> 100,
     wind_vel_nsd |-> 50000, wind_vel_nsd_scaler |-> 500000,
     initial_wind_uncertainty |-> 1000000, mag_noise |-> 50000,
     switch_on_gyro_bias |-> 100000, switch_on_accel_bias |-> 200000,
     height_rate_lpf |-> -2000000]

\* Every parameter equal to 0.
ZeroParams ==
    [gps_vel_noise |-> 0, gps_pos_noise |-> 0,
     pos_noaid_noise |-> 0, baro_noise |-> 0,
     range_noise |-> 0, initial_tilt_err |-> 0,
     gyro_bias_p_noise |-> 0, accel_bias_p_noise |-> 0,
     mage_p_noise |-> 0, magb_p_noise |-> 0,
     wind_vel_nsd |-> 0, wind_vel_nsd_scaler |-> 0,
     initial_wind_uncertainty |-> 0, mag_noise |-> 0,
     switch_on_gyro_bias |-> 0, switch_on_accel_bias |-> 0,
     height_rate_lpf |-> 0]

\* Noise densities above the [0, 1] range the predictor constrains them to.
HighParams ==
    [gps_vel_noise |-> 1000000, gps_pos_noise |-> 2000000,
     pos_noaid_noise |-> 5000000, baro_noise |-> 1000000,
     range_noise |-> 500000, initial_tilt_err |-> 500000,
     gyro_bias_p_noise |-> 2000000, accel_bias_p_noise |-> 2000000,
     mage_p_noise |-> 2000000, magb_p_noise |-> 2000000,
     wind_vel_nsd |-> 2000000, wind_vel_nsd_scaler |-> 1000000,
     initial_wind_uncertainty |-> 2000000, mag_noise |-> 500000,
     switch_on_gyro_bias |-> 200000, switch_on_accel_bias |-> 500000,
     height_rate_lpf |-> 1000000]

\* _R_to_earth scaled by 5: the identity, and a roll by the angle whose cosine
\* is 3/5 and sine 4/5.  R[k][a] is row k, column a (1-based).
RotIdentity == <<<<5, 0, 0>>, <<0, 5, 0>>, <<0, 0, 5>>>>

RotRoll == <<<<5, 0, 0>>, <<0, 3, -4>>, <<0, 4, 3>>>>

\* The configurations a behaviour starts from: parameters and attitude.
Configs ==
    {[params |-> NominalParams, R |-> RotRoll],
     [params |-> ZeroParams, R |-> RotIdentity],
     [params |-> HighParams, R |-> RotRoll]}

\* _dt_ekf_avg in microseconds.
DtSet == {10000}

\* CONSTANTS_ONE_G in micro units.
CONSTANTS_ONE_G == 9806650

\* BADACC_BIAS_PNOISE is used only for the accel noise handed to the external
\* transition routine.

\* yaw_noise arguments of resetQuatCov: NAN (the default) and 0.5.
YawNoiseNaN == [finite |-> FALSE, val |-> 0]

YawNoises == {YawNoiseNaN, [finite |-> TRUE, val |-> 500000]}

PX4_ISFINITE(x) == x.finite

\* -------------------------------------------------------------------- state

VARIABLES
    P,                      \* the covariance matrix
    params,                 \* _params
    dt_ekf_avg,             \* _dt_ekf_avg
    R_to_earth,             \* _R_to_earth (times 5)
    control_status,         \* _control_status.flags: mag, wind, gps_hgt, rng_hgt
    gyro_bias_inhibit,      \* _gyro_bias_inhibit[3]
    accel_bias_inhibit,     \* _accel_bias_inhibit[3]
    prev_gyro_bias_var,     \* _prev_gyro_bias_var
    prev_accel_bias_var,    \* _prev_accel_bias_var
    mag_decl_cov_reset,     \* _mag_decl_cov_reset
    op,                     \* history: the last operation and its arguments
    entry,                  \* history: the diagonal of P on entry to the last enforce
    mark,                   \* history: an axis's variance when its inhibition began
    reset_since,            \* history: the axis's block was reset since then
    steps,                  \* history: operations performed
    pc                      \* the estimator's position in the filter cycle

vars == <<P, params, dt_ekf_avg, R_to_earth, control_status,
          gyro_bias_inhibit, accel_bias_inhibit, prev_gyro_bias_var,
          prev_accel_bias_var, mag_decl_cov_reset, op, entry, mark, reset_since,
          steps, pc>>

\* Operations per behaviour.
MaxSteps == 2

\* --------------------------------------------------------- reset operators

\* resetStateCovariance<State::quat_nominal>(cov): the block is decorrelated
\* from every other state and the 3x3 matrix cov is written into it.
resetStateCovariance(M, s, cov) ==
    LET U == uncorrelateCovarianceSetVariance(M, s.idx, s.dof, Zero)
    IN  Mat([i \in Idx |->
                IF InState(i, s)
                THEN [j \in Idx |->
                        IF InState(j, s) THEN cov[i - s.idx + 1][j - s.idx + 1] ELSE Zero]
                ELSE U[i]])

\* _R_to_earth.T() * diag(rot_var_ned) * _R_to_earth, entry (a, b), with R
\* scaled by 5 and the variances in micro units.
RotatedCov(R, rot_var_ned) ==
    [a \in 1 .. 3 |-> [b \in 1 .. 3 |->
        FromMicro((R[1][a] * rot_var_ned[1] * R[1][b]
                   + R[2][a] * rot_var_ned[2] * R[2][b]
                   + R[3][a] * rot_var_ned[3] * R[3][b]) \div 25)]]

\* A mutation of resetQuatCovVec: the rotation is left out.
resetQuatCovVec_NoRotation(M, rot_var_ned) ==
    resetStateCovariance(M, State.quat_nominal,
                         RotatedCov(RotIdentity, rot_var_ned))

\* Ekf::resetQuatCov(const Vector3f &rot_var_ned)
resetQuatCovVec(M, rot_var_ned) ==
    resetStateCovariance(M, State.quat_nominal,
                         RotatedCov(R_to_earth, rot_var_ned))

\* Ekf::resetQuatCov(const float yaw_noise)
resetQuatCov(M, yaw_noise) ==
    LET tilt_var == sq(fmaxfP(params.initial_tilt_err, 10000))
        yaw_var == IF PX4_ISFINITE(yaw_noise)
                   THEN fmaxfP(sq(yaw_noise.val), sq(10000))
                   ELSE sq(10000)
    IN  resetQuatCovVec(M, <<tilt_var, tilt_var, yaw_var>>)

\* Ekf::resetGyroBiasCov(): the block is set to its startup variance.
resetGyroBiasCov(M) ==
    uncorrelateCovarianceSetVariance(M, State.gyro_bias.idx, State.gyro_bias.dof,
                                     FromMicro(sq(params.switch_on_gyro_bias)))

\* Ekf::resetAccelBiasCov(): the block is set to its startup variance.
resetAccelBiasCov(M) ==
    uncorrelateCovarianceSetVariance(M, State.accel_bias.idx, State.accel_bias.dof,
                                     FromMicro(sq(params.switch_on_accel_bias)))

\* Ekf::resetWindCov(): the block is set to its startup variance.
resetWindCov(M) ==
    uncorrelateCovarianceSetVariance(M, State.wind_vel.idx, State.wind_vel.dof,
                                     FromMicro(sq(params.initial_wind_uncertainty)))

\* Ekf::resetMagCov(), its effect on P.  (saveMagCovData() copies blocks of P
\* into members this model does not hold.)
resetMagCov(M) ==
    LET M1 == uncorrelateCovarianceSetVariance(M, State.mag_I.idx, State.mag_I.dof,
                                               FromMicro(sq(params.mag_noise)))
    IN  uncorrelateCovarianceSetVariance(M1, State.mag_B.idx, State.mag_B.dof,
                                         FromMicro(sq(params.mag_noise)))

\* Ekf::resetGyroBiasZCov()
resetGyroBiasZCov(M) ==
    LET init_gyro_bias_var == FromMicro(sq(params.switch_on_gyro_bias))
    IN  uncorrelateCovarianceSetVariance(M, State.gyro_bias.idx + 2, 1,
                                         init_gyro_bias_var)

\* ------------------------------------------------------------- initialiser

\* A mutation of initialiseCovariance: the velocity and position noise
\* parameters are squared without being floored.
initialiseCovariance_NoFloor(flags) ==
    LET P1 == resetQuatCov(zero, YawNoiseNaN)
        vel_var == sq(params.gps_vel_noise)
        z0 == sq(params.baro_noise)
        xy_pos_var == sq(params.gps_pos_noise)
        z1 == IF flags.gps_hgt THEN sq(Mul(1500000, params.gps_pos_noise)) ELSE z0
        z_pos_var == IF flags.rng_hgt THEN sq(params.range_noise) ELSE z1
        P2 == uncorrelateCovarianceSetVarianceVec(P1, State.vel.idx, State.vel.dof,
                  <<FromMicro(vel_var), FromMicro(vel_var),
                    FromMicro(Mul(sq(1500000), vel_var))>>)
        P3 == uncorrelateCovarianceSetVarianceVec(P2, State.pos.idx, State.pos.dof,
                  <<FromMicro(xy_pos_var), FromMicro(xy_pos_var),
                    FromMicro(z_pos_var)>>)
    IN  resetWindCov(resetMagCov(resetAccelBiasCov(resetGyroBiasCov(P3))))

\* Ekf::initialiseCovariance(), its effect on P for the given height flags.
initialiseCovariance(flags) ==
    LET P1 == resetQuatCov(zero, YawNoiseNaN)
        vel_var == sq(fmaxfP(params.gps_vel_noise, 10000))
        z0 == sq(fmaxfP(params.baro_noise, 10000))
        xy_pos_var == sq(fmaxfP(params.gps_pos_noise, 10000))
        z1 == IF flags.gps_hgt
              THEN sq(fmaxfP(Mul(1500000, params.gps_pos_noise), 10000))
              ELSE z0
        z_pos_var == IF flags.rng_hgt
                     THEN sq(fmaxfP(params.range_noise, 10000))
                     ELSE z1
        P2 == uncorrelateCovarianceSetVarianceVec(P1, State.vel.idx, State.vel.dof,
                  <<FromMicro(vel_var), FromMicro(vel_var),
                    FromMicro(Mul(sq(1500000), vel_var))>>)
        P3 == uncorrelateCovarianceSetVarianceVec(P2, State.pos.idx, State.pos.dof,
                  <<FromMicro(xy_pos_var), FromMicro(xy_pos_var),
                    FromMicro(z_pos_var)>>)
    IN  resetWindCov(resetMagCov(resetAccelBiasCov(resetGyroBiasCov(P3))))

\* ----------------------------------------------------------- health enforcer

\* A mutation of constrainStateVar: only the upper limit is applied.
RECURSIVE constrainFrom_NoLower(_, _, _, _, _)
constrainFrom_NoLower(M, i, end, min, max) ==
    IF i >= end THEN M
    ELSE constrainFrom_NoLower(
             [M EXCEPT ![i][i] = IF Gt(@, max) THEN max ELSE @],
             i + 1, end, min, max)

\* constrainStateVar, the loop from state i to state end - 1.
RECURSIVE constrainFrom(_, _, _, _, _)
constrainFrom(M, i, end, min, max) ==
    IF i >= end THEN M
    ELSE constrainFrom([M EXCEPT ![i][i] = constrain(@, min, max)],
                       i + 1, end, min, max)

\* Ekf::constrainStateVar(state, min, max)
constrainStateVar(M, state, min, max) ==
    constrainFrom(M, state.idx, state.idx + state.dof, min, max)

\* fixCovarianceErrors, the limits of the attitude, velocity, position and
\* gyro bias blocks.
constrainKinematic(M) ==
    LET quat_var_max == Whole(1)
        vel_var_max == Whole(1000000)
        pos_var_max == Whole(1000000)
        gyro_bias_var_max == Whole(1)
        M1 == constrainStateVar(M, State.quat_nominal, Zero, quat_var_max)
        M2 == constrainStateVar(M1, State.vel, FromMicro(1), vel_var_max)
        M3 == constrainStateVar(M2, State.pos, FromMicro(1), pos_var_max)
    IN  constrainStateVar(M3, State.gyro_bias, Zero, gyro_bias_var_max)

\* 1e-9f / sq(_dt_ekf_avg), in micro units: (1e-9 * 1e12) / (sq(dt) * 1e6).
minSafeStateVar == FromMicro(1000 \div sq(dt_ekf_avg))

\* 5E-8f / sq(_dt_ekf_avg), in micro units.
minStateVarTarget == FromMicro(50000 \div sq(dt_ekf_avg))

\* sq(0.1f * CONSTANTS_ONE_G)
accelBiasVarMax == FromMicro(sq(Mul(100000, CONSTANTS_ONE_G)))

\* fixCovarianceErrors, the first loop over the accel bias axes: the largest
\* variance of the axes that are not inhibited, and whether one of them is
\* below the safe minimum.
RECURSIVE accelBiasScan(_, _, _, _)
accelBiasScan(M, axis, maxStateVar, resetRequired) ==
    IF axis >= State.accel_bias.dof
    THEN [maxStateVar |-> maxStateVar, resetRequired |-> resetRequired]
    ELSE LET stateIndex == State.accel_bias.idx + axis
         IN  IF accel_bias_inhibit[axis]
             THEN accelBiasScan(M, axis + 1, maxStateVar, resetRequired)
             ELSE IF Gt(M[stateIndex][stateIndex], maxStateVar)
             THEN accelBiasScan(M, axis + 1, M[stateIndex][stateIndex], resetRequired)
             ELSE IF Lt(M[stateIndex][stateIndex], minSafeStateVar)
             THEN accelBiasScan(M, axis + 1, maxStateVar, TRUE)
             ELSE accelBiasScan(M, axis + 1, maxStateVar, resetRequired)

\* Whether fixCovarianceErrors, entered with M, calls resetAccelBiasCov().
resetRequiredOn(M) ==
    /\ ~accel_bias_inhibit[0] \/ ~accel_bias_inhibit[1] \/ ~accel_bias_inhibit[2]
    /\ accelBiasScan(M, 0, minSafeStateVar, FALSE).resetRequired

\* fixCovarianceErrors, the second loop over the accel bias axes: every axis
\* that is not inhibited is limited to [minAllowedStateVar, sq(0.1 g)].
RECURSIVE limitAccelBias(_, _, _)
limitAccelBias(M, axis, minAllowedStateVar) ==
    IF axis >= State.accel_bias.dof THEN M
    ELSE LET stateIndex == State.accel_bias.idx + axis
         IN  IF accel_bias_inhibit[axis]
             THEN limitAccelBias(M, axis + 1, minAllowedStateVar)
             ELSE limitAccelBias(
                      [M EXCEPT ![stateIndex][stateIndex] =
                              constrain(@, minAllowedStateVar, accelBiasVarMax)],
                      axis + 1, minAllowedStateVar)

\* fixCovarianceErrors, the accelerometer bias states.
constrainAccelBias(M) ==
    IF ~accel_bias_inhibit[0] \/ ~accel_bias_inhibit[1] \/ ~accel_bias_inhibit[2]
    THEN LET scan == accelBiasScan(M, 0, minSafeStateVar, FALSE)
             minAllowedStateVar ==
                 fmaxf(Hundredth(scan.maxStateVar), minStateVarTarget)
             M1 == limitAccelBias(M, 0, minAllowedStateVar)
         IN  IF scan.resetRequired THEN resetAccelBiasCov(M1) ELSE M1
    ELSE M

\* A mutation of symmetriseKinematic: the accel bias block is left out.
symmetriseKinematic_NoAccelBias(M, force_symmetry) ==
    IF force_symmetry
    THEN LET M1 == makeRowColSymmetric(M, State.quat_nominal.idx, State.quat_nominal.dof)
             M2 == makeRowColSymmetric(M1, State.vel.idx, State.vel.dof)
             M3 == makeRowColSymmetric(M2, State.pos.idx, State.pos.dof)
         IN  makeRowColSymmetric(M3, State.gyro_bias.idx, State.gyro_bias.dof)
    ELSE M

\* fixCovarianceErrors, the symmetry of the first five blocks.
symmetriseKinematic(M, force_symmetry) ==
    IF force_symmetry
    THEN LET M1 == makeRowColSymmetric(M, State.quat_nominal.idx, State.quat_nominal.dof)
             M2 == makeRowColSymmetric(M1, State.vel.idx, State.vel.dof)
             M3 == makeRowColSymmetric(M2, State.pos.idx, State.pos.dof)
             M4 == makeRowColSymmetric(M3, State.gyro_bias.idx, State.gyro_bias.dof)
         IN  makeRowColSymmetric(M4, State.accel_bias.idx, State.accel_bias.dof)
    ELSE M

\* A mutation of gateMag: an inactive magnetometer only has its variances
\* limited, the blocks are not zeroed.
gateMag_NoZero(M, force_symmetry) ==
    LET M1 == constrainStateVar(M, State.mag_I, Zero, Whole(1))
        M2 == constrainStateVar(M1, State.mag_B, Zero, Whole(1))
    IN  IF force_symmetry
        THEN makeRowColSymmetric(
                 makeRowColSymmetric(M2, State.mag_I.idx, State.mag_I.dof),
                 State.mag_B.idx, State.mag_B.dof)
        ELSE M2

\* fixCovarianceErrors, the magnetic field states.
gateMag(M, force_symmetry) ==
    IF ~control_status.mag
    THEN uncorrelateCovarianceSetVariance(
             uncorrelateCovarianceSetVariance(M, State.mag_I.idx, State.mag_I.dof, Zero),
             State.mag_B.idx, State.mag_B.dof, Zero)
    ELSE LET mag_I_var_max == Whole(1)
             mag_B_var_max == Whole(1)
             M1 == constrainStateVar(M, State.mag_I, Zero, mag_I_var_max)
             M2 == constrainStateVar(M1, State.mag_B, Zero, mag_B_var_max)
         IN  IF force_symmetry
             THEN makeRowColSymmetric(
                      makeRowColSymmetric(M2, State.mag_I.idx, State.mag_I.dof),
                      State.mag_B.idx, State.mag_B.dof)
             ELSE M2

\* fixCovarianceErrors, the wind velocity states.
gateWind(M, force_symmetry) ==
    IF ~control_status.wind
    THEN uncorrelateCovarianceSetVariance(M, State.wind_vel.idx, State.wind_vel.dof, Zero)
    ELSE LET wind_vel_var_max == Whole(1000000)
             M1 == constrainStateVar(M, State.wind_vel, Zero, wind_vel_var_max)
         IN  IF force_symmetry
             THEN makeRowColSymmetric(M1, State.wind_vel.idx, State.wind_vel.dof)
             ELSE M1

\* Ekf::fixCovarianceErrors(force_symmetry), its effect on P.
fixCovarianceErrors(M, force_symmetry) ==
    gateWind(
        gateMag(
            symmetriseKinematic(constrainAccelBias(constrainKinematic(M)),
                                force_symmetry),
            force_symmetry),
        force_symmetry)

\* ---------------------------------------------------------------- predictor

\* sq(dt * constrain(noise density, 0, 1)), the process noise of a bias or
\* magnetic field state.
processNoise(density) == sq(Mul(dt_ekf_avg, constrainP(density, 0, Micro)))

\* predictCovariance, the gyro bias loop from axis `index` on: add process
\* noise, or restore the previous variance of an inhibited axis.
RECURSIVE predictGyroBias(_, _)
predictGyroBias(M, index) ==
    IF index >= State.gyro_bias.dof THEN M
    ELSE LET i == State.gyro_bias.idx + index
             gyro_bias_process_noise == processNoise(params.gyro_bias_p_noise)
             M1 == IF ~gyro_bias_inhibit[index]
                   THEN [M EXCEPT ![i][i] =
                                Add(@, FromMicro(gyro_bias_process_noise))]
                   ELSE uncorrelateCovarianceSetVariance(M, i, 1,
                                                         prev_gyro_bias_var[index])
         IN  predictGyroBias(M1, index + 1)

\* A mutation of predictAccelBias: an inhibited axis gets process noise like
\* any other.
RECURSIVE predictAccelBias_NoRestore(_, _)
predictAccelBias_NoRestore(M, index) ==
    IF index >= State.accel_bias.dof THEN M
    ELSE LET i == State.accel_bias.idx + index
             accel_bias_process_noise == processNoise(params.accel_bias_p_noise)
         IN  predictAccelBias_NoRestore(
                 [M EXCEPT ![i][i] = Add(@, FromMicro(accel_bias_process_noise))],
                 index + 1)

\* predictCovariance, the accel bias loop from axis `index` on.
RECURSIVE predictAccelBias(_, _)
predictAccelBias(M, index) ==
    IF index >= State.accel_bias.dof THEN M
    ELSE LET i == State.accel_bias.idx + index
             accel_bias_process_noise == processNoise(params.accel_bias_p_noise)
             M1 == IF ~accel_bias_inhibit[index]
                   THEN [M EXCEPT ![i][i] =
                                Add(@, FromMicro(accel_bias_process_noise))]
                   ELSE uncorrelateCovarianceSetVariance(M, i, 1,
                                                         prev_accel_bias_var[index])
         IN  predictAccelBias(M1, index + 1)

\* predictCovariance, a loop "P(i, i) += noise" over the `width` states from
\* state `first` on.
RECURSIVE addToDiagonalFrom(_, _, _, _)
addToDiagonalFrom(M, first, width, noise) ==
    IF width = 0 THEN M
    ELSE addToDiagonalFrom([M EXCEPT ![first][first] = Add(@, noise)],
                           first + 1, width - 1, noise)

addToDiagonal(M, s, noise) == addToDiagonalFrom(M, s.idx, s.dof, noise)

\* predictCovariance, the magnetic field process noise.
predictMag(M) ==
    IF control_status.mag
    THEN LET M1 == IF Lt(trace(M, State.mag_I.idx, State.mag_I.dof), FromMicro(100000))
                   THEN addToDiagonal(M, State.mag_I,
                                      FromMicro(processNoise(params.mage_p_noise)))
                   ELSE M
         IN  IF Lt(trace(M1, State.mag_B.idx, State.mag_B.dof), FromMicro(100000))
             THEN addToDiagonal(M1, State.mag_B,
                                FromMicro(processNoise(params.magb_p_noise)))
             ELSE M1
    ELSE M

\* predictCovariance, the wind velocity process noise.
predictWind(M) ==
    IF /\ control_status.wind
       /\ Lt(trace(M, State.wind_vel.idx, State.wind_vel.dof),
             FromMicro(sq(params.initial_wind_uncertainty)))
    THEN LET wind_vel_nsd_scaled ==
                 Mul(constrainP(params.wind_vel_nsd, 0, Micro),
                     Micro + Mul(params.wind_vel_nsd_scaler,
                                 fabsf(params.height_rate_lpf)))
             wind_vel_process_noise == Mul(sq(wind_vel_nsd_scaled), dt_ekf_avg)
         IN  addToDiagonal(M, State.wind_vel, FromMicro(wind_vel_process_noise))
    ELSE M

\* predictCovariance, "copy upper half to lower half".
copyUpperToLower(M) ==
    Mat([row \in Idx |-> [column \in Idx |->
            IF column < row THEN M[column][row] ELSE M[row][column]]])

\* predictCovariance from the result T of sym::PredictCovariance up to the
\* call of fixCovarianceErrors.
predictBeforeFix(T) ==
    copyUpperToLower(predictWind(predictMag(predictAccelBias(predictGyroBias(T, 0), 0))))

\* Ekf::predictCovariance, its effect on P given the result T of the external
\* transition routine.
predictCovariance(T) == fixCovarianceErrors(predictBeforeFix(T), FALSE)

\* --------------------------------------------------------- update validator

\* A mutation of checkAndFixFrom: a failing state is repaired but the matrix
\* is still reported healthy.
RECURSIVE checkAndFixFrom_AlwaysHealthy(_, _, _, _)
checkAndFixFrom_AlwaysHealthy(M, KHP, i, healthy) ==
    IF i >= StateSize THEN [P |-> M, healthy |-> TRUE]
    ELSE IF Lt(M[i][i], KHP[i])
    THEN checkAndFixFrom_AlwaysHealthy(
             uncorrelateCovarianceSetVariance(M, i, 1, Zero), KHP, i + 1, TRUE)
    ELSE checkAndFixFrom_AlwaysHealthy(M, KHP, i + 1, TRUE)

\* checkAndFixCovarianceUpdate, the loop from state i on.  KHP[i] is the
\* diagonal entry KHP(i, i), the only part of KHP the function reads.
RECURSIVE checkAndFixFrom(_, _, _, _)
checkAndFixFrom(M, KHP, i, healthy) ==
    IF i >= StateSize THEN [P |-> M, healthy |-> healthy]
    ELSE IF Lt(M[i][i], KHP[i])
    THEN checkAndFixFrom(uncorrelateCovarianceSetVariance(M, i, 1, Zero),
                         KHP, i + 1, FALSE)
    ELSE checkAndFixFrom(M, KHP, i + 1, healthy)

\* Ekf::checkAndFixCovarianceUpdate(KHP): the repaired P and the return value.
checkAndFixCovarianceUpdate(M, KHP) == checkAndFixFrom(M, KHP, 0, TRUE)

\* ------------------------------------------------------------------- inputs

\* M with the entry (c.row, c.col) replaced by c.val.
Patch(M, c) == [M EXCEPT ![c.row][c.col] = c.val]

Cell(row, col, val) == [row |-> row, col |-> col, val |-> val]

\* What the external transition routine returns besides the matrix it was
\* given: one entry differs.  A negative velocity variance, a tiny and a huge
\* accel bias variance, a huge gyro bias and magnetometer variance, a
\* correlation above the diagonal.
TransitionCells ==
    {Cell(3, 3, Whole(-1)), Cell(12, 12, FromMicro(1)), Cell(12, 12, Whole(2000000)),
     Cell(11, 11, Whole(2000000)), Cell(16, 16, Whole(2000000)),
     Cell(0, 4, FromMicro(250000)), Cell(13, 14, FromMicro(250000))}

Transitions(M) == {M} \cup {Patch(M, c) : c \in TransitionCells}

\* What an external correction leaves behind: one entry differs.  Diagonal
\* entries out of range, and correlations on one side of the diagonal only.
CorrectionCells ==
    {Cell(3, 3, Whole(-1)), Cell(12, 12, FromMicro(1)), Cell(12, 12, Whole(2000000)),
     Cell(0, 4, FromMicro(250000)), Cell(4, 0, FromMicro(250000)),
     Cell(16, 2, FromMicro(250000)), Cell(13, 14, FromMicro(250000)),
     Cell(5, 11, FromMicro(250000))}

Corrections(M) == {Patch(M, c) : c \in CorrectionCells}

\* The diagonal of KHP: v at the states of S, zero elsewhere.
KhpAt(S, v) == [i \in Idx |-> IF i \in S THEN v ELSE Zero]

KhpSet == {KhpAt({4}, FromMicro(1)), KhpAt({13}, Whole(2)), KhpAt({4, 16}, Whole(20))}

NoKhp == KhpAt({}, Zero)

\* What the estimator does to the inhibit flags at the start of a cycle:
\* nothing, or the flag of one bias axis flips.
NoChange == [kind |-> "none", index |-> 0]

InhibitChanges ==
    {NoChange, [kind |-> "accel", index |-> 0], [kind |-> "accel", index |-> 1],
     [kind |-> "gyro", index |-> 2]}

\* The inhibit flags of the `kind` bias block after the change.
inhibitFlags(flags, kind, change) ==
    IF change.kind = kind THEN [flags EXCEPT ![change.index] = ~@] ELSE flags

\* The stored "previous variance" of the `kind` bias block s after the change:
\* the variance of an axis is stored when its inhibition begins.
storedVariance(prev, flags, s, kind, change) ==
    IF change.kind = kind /\ ~flags[change.index]
    THEN [prev EXCEPT ![change.index] = P[s.idx + change.index][s.idx + change.index]]
    ELSE prev

\* The "block reset since the inhibition began" history of the `kind` bias
\* block after the change: cleared for an axis whose inhibition begins.
beganSince(since, flags, kind, change) ==
    IF change.kind = kind /\ ~flags[change.index]
    THEN [since EXCEPT ![change.index] = FALSE]
    ELSE since

\* The same history after the enforcer ran: set for every accel bias axis
\* when the enforcer reset the block.
resetSince(resetRequired) ==
    IF resetRequired
    THEN [reset_since EXCEPT !.accel = [a \in Axes |-> TRUE]]
    ELSE reset_since

\* ------------------------------------------------------------------ actions

Init ==
    /\ \E c \in Configs : params = c.params /\ R_to_earth = c.R
    /\ dt_ekf_avg \in DtSet
    /\ control_status = [mag |-> TRUE, wind |-> TRUE, gps_hgt |-> FALSE, rng_hgt |-> FALSE]
    /\ gyro_bias_inhibit = [a \in Axes |-> FALSE]
    /\ accel_bias_inhibit = [a \in Axes |-> FALSE]
    /\ prev_gyro_bias_var = [a \in Axes |-> Zero]
    /\ prev_accel_bias_var = [a \in Axes |-> Zero]
    /\ mag_decl_cov_reset = FALSE
    /\ P = initialiseCovariance(control_status)
    /\ op = [name |-> "initialise", flag |-> FALSE, khp |-> NoKhp]
    /\ entry = diagonal(P)
    /\ mark = [gyro |-> [a \in Axes |-> Zero], accel |-> [a \in Axes |-> Zero]]
    /\ reset_since = [gyro |-> [a \in Axes |-> FALSE], accel |-> [a \in Axes |-> FALSE]]
    /\ steps = 0
    /\ pc = "idle"

Step(name, flag, khp) ==
    /\ pc = "idle"
    /\ pc' = "idle"
    /\ steps < MaxSteps
    /\ steps' = steps + 1
    /\ op' = [name |-> name, flag |-> flag, khp |-> khp]

\* initialiseCovariance()
Initialise ==
    /\ Step("initialise", FALSE, NoKhp)
    /\ P' = initialiseCovariance(control_status)
    /\ mag_decl_cov_reset' = FALSE
    /\ entry' = diagonal(P')
    /\ UNCHANGED <<params, dt_ekf_avg, R_to_earth, control_status, gyro_bias_inhibit,
                   accel_bias_inhibit, prev_gyro_bias_var, prev_accel_bias_var, mark>>
    /\ reset_since' = [gyro |-> [a \in Axes |-> TRUE], accel |-> [a \in Axes |-> TRUE]]

\* The filter cycle begins: the estimator updates the bias inhibit flags
\* (`change` names the axis whose flag flips, if any); the covariance
\* prediction follows.
UpdateInhibit ==
    \E change \in InhibitChanges :
        /\ pc = "idle"
        /\ steps < MaxSteps
        /\ pc' = "predict"
        /\ op' = [name |-> "updateInhibit", flag |-> FALSE, khp |-> NoKhp]
        /\ gyro_bias_inhibit' = inhibitFlags(gyro_bias_inhibit, "gyro", change)
        /\ accel_bias_inhibit' = inhibitFlags(accel_bias_inhibit, "accel", change)
        /\ prev_gyro_bias_var' =
               storedVariance(prev_gyro_bias_var, gyro_bias_inhibit, State.gyro_bias,
                              "gyro", change)
        /\ prev_accel_bias_var' =
               storedVariance(prev_accel_bias_var, accel_bias_inhibit, State.accel_bias,
                              "accel", change)
        /\ mark' = [gyro |-> storedVariance(mark.gyro, gyro_bias_inhibit,
                                            State.gyro_bias, "gyro", change),
                    accel |-> storedVariance(mark.accel, accel_bias_inhibit,
                                             State.accel_bias, "accel", change)]
        /\ reset_since' = [gyro |-> beganSince(reset_since.gyro, gyro_bias_inhibit,
                                                "gyro", change),
                           accel |-> beganSince(reset_since.accel, accel_bias_inhibit,
                                                 "accel", change)]
        /\ entry' = diagonal(P)
        /\ UNCHANGED <<P, params, dt_ekf_avg, R_to_earth, control_status,
                       mag_decl_cov_reset, steps>>

\* predictCovariance(imu_delayed); T is what sym::PredictCovariance returned.
Predict ==
    \E T \in Transitions(P) :
        /\ pc = "predict"
        /\ pc' = "idle"
        /\ steps' = steps + 1
        /\ op' = [name |-> "predict", flag |-> FALSE, khp |-> NoKhp]
        /\ entry' = diagonal(predictBeforeFix(T))
        /\ reset_since' = resetSince(resetRequiredOn(predictBeforeFix(T)))
        /\ P' = predictCovariance(T)
        /\ UNCHANGED <<params, dt_ekf_avg, R_to_earth, control_status,
                       gyro_bias_inhibit, accel_bias_inhibit, prev_gyro_bias_var,
                       prev_accel_bias_var, mag_decl_cov_reset, mark>>

\* fixCovarianceErrors(force_symmetry)
Enforce ==
    \E force_symmetry \in BOOLEAN :
        /\ Step("enforce", force_symmetry, NoKhp)
        /\ entry' = diagonal(P)
        /\ reset_since' = resetSince(resetRequiredOn(P))
        /\ P' = fixCovarianceErrors(P, force_symmetry)
        /\ UNCHANGED <<params, dt_ekf_avg, R_to_earth, control_status,
                       gyro_bias_inhibit, accel_bias_inhibit, prev_gyro_bias_var,
                       prev_accel_bias_var, mag_decl_cov_reset, mark>>

\* checkAndFixCovarianceUpdate(KHP)
Validate ==
    \E KHP \in KhpSet :
        LET r == checkAndFixCovarianceUpdate(P, KHP)
        IN  /\ Step("validate", r.healthy, KHP)
            /\ entry' = diagonal(P)
            /\ P' = r.P
            /\ UNCHANGED <<params, dt_ekf_avg, R_to_earth, control_status,
                           gyro_bias_inhibit, accel_bias_inhibit, prev_gyro_bias_var,
                           prev_accel_bias_var, mag_decl_cov_reset, mark,
                   reset_since>>

\* resetQuatCov(yaw_noise)
ResetQuatCov ==
    \E yaw_noise \in YawNoises :
        /\ Step("resetQuatCov", yaw_noise.finite, NoKhp)
        /\ P' = resetQuatCov(P, yaw_noise)
        /\ entry' = diagonal(P')
        /\ UNCHANGED <<params, dt_ekf_avg, R_to_earth, control_status,
                       gyro_bias_inhibit, accel_bias_inhibit, prev_gyro_bias_var,
                       prev_accel_bias_var, mag_decl_cov_reset, mark,
                   reset_since>>

\* resetMagCov()
ResetMagCov ==
    /\ Step("resetMagCov", FALSE, NoKhp)
    /\ mag_decl_cov_reset' = FALSE
    /\ P' = resetMagCov(P)
    /\ entry' = diagonal(P')
    /\ UNCHANGED <<params, dt_ekf_avg, R_to_earth, control_status, gyro_bias_inhibit,
                   accel_bias_inhibit, prev_gyro_bias_var, prev_accel_bias_var, mark,
                   reset_since>>

\* resetGyroBiasZCov()
ResetGyroBiasZCov ==
    /\ Step("resetGyroBiasZCov", FALSE, NoKhp)
    /\ P' = resetGyroBiasZCov(P)
    /\ entry' = diagonal(P')
    /\ UNCHANGED <<params, dt_ekf_avg, R_to_earth, control_status, gyro_bias_inhibit,
                   accel_bias_inhibit, prev_gyro_bias_var, prev_accel_bias_var,
                   mag_decl_cov_reset, mark,
                   reset_since>>

\* The estimator switches an optional mode or a height source on or off.
SetControlStatus ==
    \E f \in {"mag", "wind", "rng_hgt"} :
        /\ Step("setControlStatus", FALSE, NoKhp)
        /\ control_status' = [control_status EXCEPT ![f] = ~@]
        /\ entry' = diagonal(P)
        /\ UNCHANGED <<P, params, dt_ekf_avg, R_to_earth, gyro_bias_inhibit,
                       accel_bias_inhibit, prev_gyro_bias_var, prev_accel_bias_var,
                       mag_decl_cov_reset, mark,
                   reset_since>>

\* The estimator asks for the magnetic declination covariance reset.
RequestMagDeclCovReset ==
    /\ Step("requestMagDeclCovReset", FALSE, NoKhp)
    /\ ~mag_decl_cov_reset
    /\ mag_decl_cov_reset' = TRUE
    /\ entry' = diagonal(P)
    /\ UNCHANGED <<P, params, dt_ekf_avg, R_to_earth, control_status,
                   gyro_bias_inhibit, accel_bias_inhibit, prev_gyro_bias_var,
                   prev_accel_bias_var, mark,
                   reset_since>>

\* An external measurement correction (or an exposed setter) writes P.
WriteP ==
    /\ Step("writeP", FALSE, NoKhp)
    /\ P' \in Corrections(P)
    /\ entry' = diagonal(P')
    /\ UNCHANGED <<params, dt_ekf_avg, R_to_earth, control_status, gyro_bias_inhibit,
                   accel_bias_inhibit, prev_gyro_bias_var, prev_accel_bias_var,
                   mag_decl_cov_reset, mark,
                   reset_since>>

Next ==
    \/ Initialise
    \/ UpdateInhibit
    \/ Predict
    \/ Enforce
    \/ Validate
    \/ ResetQuatCov
    \/ ResetMagCov
    \/ ResetGyroBiasZCov
    \/ SetControlStatus
    \/ RequestMagDeclCovReset

\* The operations of the covariance core, driven by the estimator.
Spec == Init /\ [][Next]_vars

NextExt == Next \/ WriteP

\* The same with external writes of P between the operations.
SpecExt == Init /\ [][NextExt]_vars

\* ------------------------------------------------------------------- claims

\* The indices of block s.
BlockOf(s) == s.idx .. (s.idx + s.dof - 1)

\* The enforcer was the last thing to run on P, on its own or inside predict.
AfterEnforce == op.name \in {"enforce", "predict"}

\* Diagonal entry i of P lies in [lo, hi].
DiagWithin(i, lo, hi) == Ge(P[i][i], lo) /\ Le(P[i][i], hi)

\* C1: in every state reachable by initialise, predict, enforce, the resets
\* and validate-and-repair, every diagonal entry of P is non-negative.
C1_NonNegativeDiagonal == \A i \in Idx : Ge(P[i][i], Zero)

\* C1's case: predict ran with an accel bias axis inhibited, the enforcer in
\* it met a negative variance, and the diagonal it left is non-negative.
C1_Witness ==
    /\ op.name = "predict"
    /\ \E a \in Axes : accel_bias_inhibit[a]
    /\ \E i \in Idx : Lt(entry[i], Zero)
    /\ \A i \in Idx : Ge(P[i][i], Zero)

\* The clamp table: the range of every block's diagonal entries.
ClampTableHolds ==
    /\ \A i \in BlockOf(State.quat_nominal) : DiagWithin(i, Zero, Whole(1))
    /\ \A i \in BlockOf(State.vel) : DiagWithin(i, FromMicro(1), Whole(Micro))
    /\ \A i \in BlockOf(State.pos) : DiagWithin(i, FromMicro(1), Whole(Micro))
    /\ \A i \in BlockOf(State.gyro_bias) : DiagWithin(i, Zero, Whole(1))
    /\ \A i \in BlockOf(State.accel_bias) : Le(P[i][i], accelBiasVarMax)
    /\ \A i \in BlockOf(State.mag_I) \cup BlockOf(State.mag_B) :
           DiagWithin(i, Zero, Whole(1))
    /\ \A i \in BlockOf(State.wind_vel) : DiagWithin(i, Zero, Whole(Micro))

\* C2: every diagonal entry of P stays within the range the clamp table gives
\* its block (accel bias at most (0.1 g)^2); stated for the states the claim
\* is surest of, those the enforcer has just left, with no accel bias axis
\* inhibited.
C2_BoundedDiagonal ==
    (AfterEnforce /\ \A a \in Axes : ~accel_bias_inhibit[a]) => ClampTableHolds

AccelBiasResetOnEntry ==
    \E b \in Axes :
        ~accel_bias_inhibit[b] /\ Lt(entry[State.accel_bias.idx + b], minSafeStateVar)

\* C4 as written: after predict, the variance of every inhibited gyro or
\* accel bias axis equals the value it had when its inhibition began.
C4_InhibitedAxisFrozen ==
    op.name = "predict" =>
        \A a \in Axes :
            /\ gyro_bias_inhibit[a] =>
                   P[State.gyro_bias.idx + a][State.gyro_bias.idx + a] = mark.gyro[a]
            /\ accel_bias_inhibit[a] =>
                   P[State.accel_bias.idx + a][State.accel_bias.idx + a] = mark.accel[a]

\* C4 as the code has it: after predict, the variance of an inhibited gyro
\* or accel bias axis equals the value it had when its inhibition began (a
\* gyro bias variance limited to [0, 1]) as long as the axis's block has not
\* been reset since; when the enforcer in that predict reset the accel bias
\* block, because an axis that is not inhibited lay below the safe minimum,
\* every accel bias axis, inhibited or not, holds the startup variance.
C4_InhibitedAxisFrozenUnlessReset ==
    op.name = "predict" =>
        \A a \in Axes :
            /\ (gyro_bias_inhibit[a] /\ ~reset_since.gyro[a]) =>
                   P[State.gyro_bias.idx + a][State.gyro_bias.idx + a]
                       = constrain(mark.gyro[a], Zero, Whole(1))
            /\ (accel_bias_inhibit[a] /\ ~reset_since.accel[a]) =>
                   P[State.accel_bias.idx + a][State.accel_bias.idx + a] = mark.accel[a]
            /\ (accel_bias_inhibit[a] /\ AccelBiasResetOnEntry) =>
                   P[State.accel_bias.idx + a][State.accel_bias.idx + a]
                       = FromMicro(sq(params.switch_on_accel_bias))

\* C4's case: two predicts in a row, an accel bias axis inhibited over both
\* and a gyro bias axis over the second, no reset of either block since: both
\* axes hold the value they had when their inhibition began.
C4_Witness ==
    /\ op.name = "predict"
    /\ steps = 2
    /\ accel_bias_inhibit[1]
    /\ gyro_bias_inhibit[2]
    /\ ~reset_since.accel[1]
    /\ ~reset_since.gyro[2]
    /\ Gt(mark.accel[1], Zero)
    /\ P[State.accel_bias.idx + 1][State.accel_bias.idx + 1] = mark.accel[1]
    /\ P[State.gyro_bias.idx + 2][State.gyro_bias.idx + 2] = mark.gyro[2]

\* The states validate-and-repair finds unhealthy in M against the diagonal
\* khp of KHP.
Unhealthy(M, khp) == {k \in Idx : Lt(M[k][k], khp[k])}

\* C5: validate-and-repair returns true exactly when no state has
\* P[i][i] < KHP[i][i] (the pre-call diagonal); the row and column of every
\* such state are zero afterwards, its diagonal entry included, and every
\* other entry of P is unchanged.
C5_ValidateAndRepair ==
    [][(op'.name = "validate" /\ steps' = steps + 1) =>
          LET bad == Unhealthy(P, op'.khp)
          IN  /\ op'.flag = (bad = {})
              /\ \A i, j \in Idx :
                     P'[i][j] = IF i \in bad \/ j \in bad THEN Zero ELSE P[i][j]]_vars

\* C5's case: validate-and-repair found a state whose variance lay below
\* its KHP entry, returned false and left that state's diagonal zero while
\* another state kept its variance.
C5_Witness ==
    /\ op.name = "validate"
    /\ ~op.flag
    /\ \E k \in Idx : Gt(op.khp[k], Zero) /\ P[k][k] = Zero
    /\ \E k \in Idx : Gt(P[k][k], Zero)

\* P[i][j] = P[j][i] for every pair of states.
Symmetric(M) == \A i, j \in Idx : i < j => M[i][j] = M[j][i]

\* Every entry in the rows and columns of block s is zero.
Decorrelated(M, s) == \A i \in BlockOf(s), j \in Idx : M[i][j] = Zero /\ M[j][i] = Zero

\* Every entry in the rows and columns of the states first .. first+width-1
\* is zero, except the diagonal, which holds var.
ResetTo(M, first, width, var) ==
    \A i \in first .. (first + width - 1), j \in Idx :
        /\ M[i][j] = (IF i = j THEN var ELSE Zero)
        /\ M[j][i] = (IF i = j THEN var ELSE Zero)

\* C3: after every predict and every enforce with forced symmetry, P is
\* symmetric, pairs of states of different blocks included.
C3_SymmetricAfterPredictAndEnforce ==
    (op.name = "predict" \/ (op.name = "enforce" /\ op.flag)) => Symmetric(P)

\* C3's case: a correction wrote a correlation between an attitude and a
\* velocity state on one side of the diagonal only; enforce with forced
\* symmetry left it on both sides.
C3_Witness ==
    /\ op.name = "enforce"
    /\ op.flag
    /\ P[0][4] = FromMicro(250000)
    /\ P[4][0] = FromMicro(250000)

C7_EnforceIdempotent == op.name = "enforce" => fixCovarianceErrors(P, op.flag) = P

\* n times a, for a natural number n.
Times(n, a) == [hi |-> n * a.hi + (n * a.lo) \div Micro, lo |-> (n * a.lo) % Micro]

\* C8: after enforce with an accel bias axis not inhibited, either the
\* largest variance of the axes not inhibited is at most 100 times the
\* smallest, or an axis not inhibited lay below the safe minimum on entry and
\* the block was reset to its startup variance and decorrelated.
C8_AccelBiasRatioGuard ==
    (AfterEnforce /\ \E a \in Axes : ~accel_bias_inhibit[a]) =>
        IF AccelBiasResetOnEntry
        THEN ResetTo(P, State.accel_bias.idx, State.accel_bias.dof,
                     FromMicro(sq(params.switch_on_accel_bias)))
        ELSE \A a, b \in Axes :
                 (~accel_bias_inhibit[a] /\ ~accel_bias_inhibit[b]) =>
                     Le(P[State.accel_bias.idx + a][State.accel_bias.idx + a],
                        Times(100, P[State.accel_bias.idx + b][State.accel_bias.idx + b]))

\* The attitude block after resetQuatCov: R^T diag(tilt, tilt, yaw) R for
\* the attitude in use, the identity or the roll of cosine 3/5 and sine 4/5.
ExpectedQuatCov ==
    LET t == sq(fmaxfP(params.initial_tilt_err, 10000))
        y == IF op.flag THEN 250000 ELSE 100
    IN  IF R_to_earth = RotIdentity
        THEN <<<<FromMicro(t), Zero, Zero>>,
               <<Zero, FromMicro(t), Zero>>,
               <<Zero, Zero, FromMicro(y)>>>>
        ELSE <<<<FromMicro(t), Zero, Zero>>,
               <<Zero, FromMicro((9 * t + 16 * y) \div 25),
                       FromMicro((12 * y - 12 * t) \div 25)>>,
               <<Zero, FromMicro((12 * y - 12 * t) \div 25),
                       FromMicro((16 * t + 9 * y) \div 25)>>>>

\* The attitude block of P holds ExpectedQuatCov and is decorrelated from
\* every other state.
QuatBlockReset ==
    \A i \in BlockOf(State.quat_nominal), j \in Idx :
        IF j \in BlockOf(State.quat_nominal)
        THEN P[i][j] = ExpectedQuatCov[i + 1][j + 1]
        ELSE P[i][j] = Zero /\ P[j][i] = Zero

\* The magnetometer and gyro bias z resets left their states' diagonal at the
\* startup variance and every other entry of their rows and columns zero.
MagAndGyroZReset ==
    /\ op.name = "resetMagCov" =>
           ResetTo(P, State.mag_I.idx, State.mag_I.dof + State.mag_B.dof,
                   FromMicro(sq(params.mag_noise)))
    /\ op.name = "resetGyroBiasZCov" =>
           ResetTo(P, State.gyro_bias.idx + 2, 1,
                   FromMicro(sq(params.switch_on_gyro_bias)))

\* C9 as written: after the attitude, magnetometer or gyro bias z reset,
\* whatever P held before, the block's diagonal holds the expected variance
\* and every other entry in the block's rows and columns is zero, the
\* off-diagonal entries within the block included.
C9_ResetRoundTrip ==
    /\ MagAndGyroZReset
    /\ op.name = "resetQuatCov" =>
           /\ QuatBlockReset
           /\ \A i, j \in BlockOf(State.quat_nominal) : i # j => P[i][j] = Zero

\* C9 as the code has it: the magnetometer and gyro bias z resets do as
\* written; the attitude reset zeroes every entry between the attitude block
\* and the other states and writes R^T diag(tilt, tilt, yaw) R into the block,
\* whose off-diagonal entries are zero only when the rotation leaves them so.
C9_ResetRoundTripRotated ==
    /\ MagAndGyroZReset
    /\ op.name = "resetQuatCov" => QuatBlockReset

\* C9's case: the attitude was reset with the vehicle rolled, as the second
\* operation on P; the block holds an off-diagonal entry and no correlation
\* with the velocity.
C9_Witness ==
    /\ op.name = "resetQuatCov"
    /\ R_to_earth = RotRoll
    /\ steps = 2
    /\ P[1][2] # Zero
    /\ P[0][4] = Zero
    /\ P[4][0] = Zero

====
